---- MODULE Spec2Model ----
(***************************************************************************)
(* Model of hyperion.utils.dataset.Dataset: a registry of one segment      *)
(* table and five optional groups of tables, each table held either as a   *)
(* loaded object or as a path, with save/load through a YAML manifest.     *)
(*                                                                         *)
(* Python values are records with a "tag" field; None is [tag |-> "None"]. *)
(* A Path is the sequence of its components.  The file system maps the     *)
(* components of every existing file to its content.                       *)
(***************************************************************************)
EXTENDS Integers, Sequences, FiniteSets, TLC

VARIABLES self, fs, last, nsaves

vars == <<self, fs, last, nsaves>>

----------------------------------------------------------------------------
(* Bounds of the model *)

\* keys per configured group in the constructor arguments
MaxKeys == 2
\* configured groups in the constructor arguments
MaxGroups == 2
\* save calls in one behaviour
MaxSaves == 1

----------------------------------------------------------------------------
(* Python values *)

None == [tag |-> "None"]

Str(x) == [tag |-> "str", s |-> x]

Path(parts) == [tag |-> "Path", parts |-> parts]

Dict(items) == [tag |-> "dict", items |-> items]

isPath(v) == v.tag \in {"Path", "str"}

\* dict[k]
DictGet(d, k) ==
    LET i == CHOOSE j \in 1..Len(d.items) : d.items[j].k = k
    IN  d.items[i].v

DictHas(d, k) == \E j \in 1..Len(d.items) : d.items[j].k = k

\* dict[k] = v : an existing key keeps its position, a new key is appended
DictSet(d, k, v) ==
    IF DictHas(d, k)
    THEN Dict([j \in 1..Len(d.items) |->
                 IF d.items[j].k = k THEN [k |-> k, v |-> v] ELSE d.items[j]])
    ELSE Dict(Append(d.items, [k |-> k, v |-> v]))

\* list(dict.keys()), in insertion order
DictKeys(d) == [j \in 1..Len(d.items) |-> d.items[j].k]

\* path / name
PathJoin(p, name) == Path(Append(p.parts, name))

\* path.parent
PathParent(p) ==
    IF Len(p.parts) = 0 THEN p ELSE Path(SubSeq(p.parts, 1, Len(p.parts) - 1))

----------------------------------------------------------------------------
(* The registry *)

Groups == <<"recordings", "features", "classes", "enrollments", "trials">>

GroupSet == {Groups[i] : i \in 1..Len(Groups)}

\* the attribute holding the objects of group g, and the one holding its paths
ObjAttr(g) == "_" \o g

PathAttr(g) == "_" \o g \o "_paths"

\* the table classes a group's values may be instances of
GroupTypes(g) ==
    CASE g = "recordings"  -> {"RecordingSet"}
      [] g = "features"    -> {"FeatureSet"}
      [] g = "classes"     -> {"ClassInfo"}
      [] g = "enrollments" -> {"EnrollmentMap"}
      [] g = "trials"      -> {"TrialKey", "TrialNdx", "SparseTrialKey"}

\* Dataset._parse_dict_args: the pair (objects, paths) of one group
_parse_dict_args(data, types) ==
    IF data = None
    THEN [objects |-> None, paths |-> None]
    ELSE [objects |-> Dict([j \in 1..Len(data.items) |->
                              [k |-> data.items[j].k,
                               v |-> IF data.items[j].v.tag \in types
                                     THEN data.items[j].v ELSE None]]),
          paths   |-> Dict([j \in 1..Len(data.items) |->
                              [k |-> data.items[j].k,
                               v |-> IF isPath(data.items[j].v)
                                     THEN data.items[j].v ELSE None]])]

\* Dataset.__init__
__init__(segments, classes, recordings, features, enrollments, trials, sparse_trials, table_sep) ==
    [_segments          |-> IF segments.tag = "SegmentSet" THEN segments ELSE None,
     _segments_path     |-> IF segments.tag = "SegmentSet" THEN None ELSE segments,
     _classes           |-> _parse_dict_args(classes, GroupTypes("classes")).objects,
     _classes_paths     |-> _parse_dict_args(classes, GroupTypes("classes")).paths,
     _recordings        |-> _parse_dict_args(recordings, GroupTypes("recordings")).objects,
     _recordings_paths  |-> _parse_dict_args(recordings, GroupTypes("recordings")).paths,
     _features          |-> _parse_dict_args(features, GroupTypes("features")).objects,
     _features_paths    |-> _parse_dict_args(features, GroupTypes("features")).paths,
     _enrollments       |-> _parse_dict_args(enrollments, GroupTypes("enrollments")).objects,
     _enrollments_paths |-> _parse_dict_args(enrollments, GroupTypes("enrollments")).paths,
     _trials            |-> _parse_dict_args(trials, GroupTypes("trials")).objects,
     _trials_paths      |-> _parse_dict_args(trials, GroupTypes("trials")).paths,
     sparse_trials      |-> sparse_trials,
     table_sep          |-> table_sep]

\* The methods of class Dataset; with the instance attributes set by __init__
\* they are every name that attribute lookup on a Dataset finds.
Methods == {"segments", "recordings_value", "features_value", "classes_value",
            "enrollments_value", "trials_value", "recordings", "features",
            "classes", "enrollments", "trials", "resolve_dataset_path",
            "resolve_file_path", "save", "update_from_disk", "load",
            "_parse_dict_args"}

HasAttr(s, name) == name \in (DOMAIN s) \cup Methods

\* the ids of the table objects the registry holds
UsedIds(s) ==
    (IF s._segments = None THEN {} ELSE {s._segments.id})
    \cup UNION {IF s[ObjAttr(g)] = None THEN {}
                ELSE {s[ObjAttr(g)].items[j].v.id :
                        j \in {i \in 1..Len(s[ObjAttr(g)].items) :
                                 s[ObjAttr(g)].items[i].v # None}} : g \in GroupSet}

\* the identity of a newly allocated object: one no live table object has
FreshId(s) == CHOOSE n \in 0..Cardinality(UsedIds(s)) :
                 n \notin UsedIds(s) /\ \A m \in 0..(n - 1) : m \in UsedIds(s)

----------------------------------------------------------------------------
(* The table classes (SegmentSet, RecordingSet, FeatureSet, ClassInfo,      *)
(* EnrollmentMap, TrialKey, TrialNdx, SparseTrialKey) and the file system   *)

\* the delimiter of a table file read or written with separator sep
Delim(sep) == IF sep = Str("\t") THEN "\t" ELSE ","

\* the delimiter field of the trial formats, which take no separator
NoDelim == "n/a"

\* the directories that exist; a file can be created only in one of them
Dirs == {<<"in">>, <<"out">>}

\* cls.load(path, sep): the table of class kind stored at path
TableLoad(kind, f, path, delim, id) ==
    IF path.parts \notin DOMAIN f
    THEN [exc |-> "NotFoundError", ret |-> None]
    ELSE LET c == f[path.parts]
         IN  IF c.tag = "table" /\ c.kind = kind /\ c.delim = delim
             THEN [exc |-> "", ret |-> [tag |-> kind, id |-> id, data |-> c.data]]
             ELSE [exc |-> "FormatError", ret |-> None]

\* open(path, "w") and a write of content, which creates or replaces the file
WriteFile(f, path, content) ==
    [p \in (DOMAIN f) \cup {path.parts} |-> IF p = path.parts THEN content ELSE f[p]]

\* whether path can be created or overwritten; bad are the writes that fail
Writable(path, bad) ==
    /\ Len(path.parts) > 0
    /\ SubSeq(path.parts, 1, Len(path.parts) - 1) \in Dirs
    /\ path.parts \notin bad

\* table.save(path, sep)
TableSave(f, table, path, delim, bad) ==
    IF Writable(path, bad)
    THEN [exc |-> "",
          fs  |-> WriteFile(f, path, [tag |-> "table", kind |-> table.tag,
                                      data |-> table.data, delim |-> delim])]
    ELSE [exc |-> "IOError", fs |-> f]

----------------------------------------------------------------------------
(* Results of a method call: the registry and file system it leaves, the   *)
(* exception it raises ("" when it returns), the value it returns and the  *)
(* table loader calls it has made.                                         *)

Return(s, f, log, v) == [self |-> s, fs |-> f, exc |-> "", ret |-> v, log |-> log]

Raise(s, f, log, e) == [self |-> s, fs |-> f, exc |-> e, ret |-> None, log |-> log]

LoadCall(loader, path, sep, exc) ==
    [loader |-> loader, path |-> path, sep |-> sep, exc |-> exc]

List(items) == [tag |-> "list", items |-> items]

----------------------------------------------------------------------------
(* The accessors *)

\* One call cls.load(path, sep) with its entry in the log of loader calls
WithLog(kind, path, sep, r) ==
    [exc |-> r.exc, ret |-> r.ret, log |-> <<LoadCall(kind \o ".load", path, sep, r.exc)>>]

LoadOnce(kind, f, path, sep, delim, id) ==
    WithLog(kind, path, sep, TableLoad(kind, f, path, delim, id))

\* "if keep_loaded: self._segments = segments" and "return segments"
SegmentsLoaded(s, f, keep_loaded, r) ==
    IF r.exc # ""
    THEN Raise(s, f, r.log, r.exc)
    ELSE Return(IF keep_loaded THEN [s EXCEPT !._segments = r.ret] ELSE s,
                f, r.log, r.ret)

\* Dataset.segments
segments(s, f, keep_loaded) ==
    IF s._segments # None
    THEN Return(s, f, <<>>, s._segments)
    ELSE IF s._segments_path = None
    THEN Raise(s, f, <<>>, "AssertionError")
    ELSE IF ~HasAttr(s, "segments_path")
    THEN \* the argument self.segments_path names no attribute of Dataset
         Raise(s, f, <<>>, "AttributeError")
    ELSE SegmentsLoaded(s, f, keep_loaded,
                        LoadOnce("SegmentSet", f, s["segments_path"], s.table_sep,
                                 Delim(s.table_sep), FreshId(s)))

\* the parser trials_value tries first
FirstTrialsParser(s) == IF s.sparse_trials THEN "SparseTrialKey" ELSE "TrialKey"

\* the except branch of trials_value: TrialNdx.load when the first parser
\* raised anything
TrialsFallback(s, f, path, r1) ==
    IF r1.exc = ""
    THEN r1
    ELSE [LoadOnce("TrialNdx", f, path, None, NoDelim, FreshId(s))
            EXCEPT !.log = r1.log \o @]

\* the try/except of trials_value
LoadTrials(s, f, path) ==
    TrialsFallback(s, f, path,
                   LoadOnce(FirstTrialsParser(s), f, path, None, NoDelim, FreshId(s)))

\* the table class the accessor of group g loads
TableClass(g) ==
    CASE g = "recordings"  -> "RecordingSet"
      [] g = "features"    -> "FeatureSet"
      [] g = "classes"     -> "ClassInfo"
      [] g = "enrollments" -> "EnrollmentMap"

\* the load of the accessor of group g
LoadGroupTable(g, s, f, path) ==
    IF g = "trials"
    THEN LoadTrials(s, f, path)
    ELSE LoadOnce(TableClass(g), f, path, s.table_sep, Delim(s.table_sep), FreshId(s))

\* "return self._<g>[key]"
ReturnSlot(g, s, f, key, log) == Return(s, f, log, DictGet(s[ObjAttr(g)], key))

\* a variant of KeepLoaded that takes the path out of the registry once its
\* file is read, whether or not the table is kept
KeepLoaded_MovesPath(g, s, f, key, keep_loaded, r) ==
    IF r.exc # ""
    THEN Raise(s, f, r.log, r.exc)
    ELSE ReturnSlot(g,
                    [s EXCEPT ![ObjAttr(g)] = IF keep_loaded
                                              THEN DictSet(s[ObjAttr(g)], key, r.ret)
                                              ELSE s[ObjAttr(g)],
                              ![PathAttr(g)] = DictSet(s[PathAttr(g)], key, None)],
                    f, key, r.log)

\* a variant of KeepLoaded that hands the loaded table to the caller and
\* never keeps it
KeepLoaded_Forgets(g, s, f, key, keep_loaded, r) ==
    IF r.exc # "" THEN Raise(s, f, r.log, r.exc) ELSE Return(s, f, r.log, r.ret)

\* "if keep_loaded: self._<g>[key] = <loaded>" and "return self._<g>[key]"
KeepLoaded(g, s, f, key, keep_loaded, r) ==
    IF r.exc # ""
    THEN Raise(s, f, r.log, r.exc)
    ELSE ReturnSlot(g,
                    IF keep_loaded
                    THEN [s EXCEPT ![ObjAttr(g)] = DictSet(s[ObjAttr(g)], key, r.ret)]
                    ELSE s,
                    f, key, r.log)

\* The body the five accessors <g>_value share; they differ in the load.
GroupValue(g, s, f, key, keep_loaded) ==
    IF s[ObjAttr(g)] = None THEN Raise(s, f, <<>>, "TypeError")
    ELSE IF ~DictHas(s[ObjAttr(g)], key) THEN Raise(s, f, <<>>, "KeyError")
    ELSE IF DictGet(s[ObjAttr(g)], key) # None THEN ReturnSlot(g, s, f, key, <<>>)
    ELSE IF DictGet(s[PathAttr(g)], key) = None THEN Raise(s, f, <<>>, "AssertionError")
    ELSE KeepLoaded(g, s, f, key, keep_loaded,
                    LoadGroupTable(g, s, f, DictGet(s[PathAttr(g)], key)))

\* Dataset.recordings_value
recordings_value(s, f, key, keep_loaded) == GroupValue("recordings", s, f, key, keep_loaded)

\* Dataset.features_value
features_value(s, f, key, keep_loaded) == GroupValue("features", s, f, key, keep_loaded)

\* Dataset.classes_value
classes_value(s, f, key, keep_loaded) == GroupValue("classes", s, f, key, keep_loaded)

\* Dataset.enrollments_value
enrollments_value(s, f, key, keep_loaded) == GroupValue("enrollments", s, f, key, keep_loaded)

\* Dataset.trials_value
trials_value(s, f, key, keep_loaded) == GroupValue("trials", s, f, key, keep_loaded)

----------------------------------------------------------------------------
(* The bulk iterators, run to exhaustion *)

\* the for loop of an iterator from its i-th key on; acc are the pairs yielded
RECURSIVE IterateFrom(_, _, _, _, _, _, _)
RECURSIVE Yield(_, _, _, _, _, _, _, _)
IterateFrom(g, s, f, keep_loaded, i, log, acc) ==
    IF i > Len(s[ObjAttr(g)].items)
    THEN Return(s, f, log, List(acc))
    ELSE Yield(g, f, keep_loaded, i, log, acc, DictKeys(s[ObjAttr(g)])[i],
               GroupValue(g, s, f, DictKeys(s[ObjAttr(g)])[i], keep_loaded))

\* "yield key, self.<g>_value(key, keep_loaded)" with the accessor's outcome r
Yield(g, f, keep_loaded, i, log, acc, key, r) ==
    IF r.exc # ""
    THEN Raise(r.self, f, log \o r.log, r.exc)
    ELSE IterateFrom(g, r.self, f, keep_loaded, i + 1, log \o r.log,
                     Append(acc, [k |-> key, v |-> r.ret]))

\* a variant of Iterate that does not test whether the group is configured
Iterate_NoAbsentTest(g, s, f, keep_loaded) ==
    IF s[ObjAttr(g)] = None
    THEN Raise(s, f, <<>>, "TypeError")
    ELSE IterateFrom(g, s, f, keep_loaded, 1, <<>>, <<>>)

\* The body the five iterators share
Iterate(g, s, f, keep_loaded) ==
    IF s[ObjAttr(g)] = None
    THEN Return(s, f, <<>>, List(<<>>))
    ELSE IterateFrom(g, s, f, keep_loaded, 1, <<>>, <<>>)

\* Dataset.recordings
recordings(s, f, keep_loaded) == Iterate("recordings", s, f, keep_loaded)

\* Dataset.features
features(s, f, keep_loaded) == Iterate("features", s, f, keep_loaded)

\* Dataset.classes
classes(s, f, keep_loaded) == Iterate("classes", s, f, keep_loaded)

\* Dataset.enrollments
enrollments(s, f, keep_loaded) == Iterate("enrollments", s, f, keep_loaded)

\* Dataset.trials
trials(s, f, keep_loaded) == Iterate("trials", s, f, keep_loaded)

----------------------------------------------------------------------------
(* Path resolution *)

\* the positions of the dots of a file name
DotPositions(name) == {i \in 1..Len(name) : SubSeq(name, i, i) = "."}

\* pathlib's PurePath.suffix: the name from its last dot on, when that dot is
\* neither the first nor the last character
Suffix(p) ==
    IF Len(p.parts) = 0 THEN ""
    ELSE LET name == p.parts[Len(p.parts)]
             dots == DotPositions(name)
             i    == CHOOSE j \in dots : \A m \in dots : m <= j
         IN  IF dots = {} THEN ""
             ELSE IF 1 < i /\ i < Len(name) THEN SubSeq(name, i, Len(name)) ELSE ""

\* the extensions resolve_dataset_path takes for a manifest file
ManifestExts == {".yaml", "yml"}

\* Dataset.resolve_dataset_path
resolve_dataset_path(dataset_path) ==
    IF Suffix(dataset_path) \in ManifestExts
    THEN [dataset_dir |-> PathParent(dataset_path), dataset_file |-> dataset_path]
    ELSE [dataset_dir |-> dataset_path,
          dataset_file |-> PathJoin(dataset_path, "dataset.yaml")]

\* Dataset.resolve_file_path; file_path.is_file() needs a Path
resolve_file_path(f, dataset_dir, file_path) ==
    IF file_path.tag # "Path"
    THEN [exc |-> "AttributeError", ret |-> None]
    ELSE IF file_path.parts \in DOMAIN f
    THEN [exc |-> "", ret |-> file_path]
    ELSE [exc |-> "", ret |-> Path(dataset_dir.parts \o file_path.parts)]

----------------------------------------------------------------------------
(* save *)

\* a variant of TableExt that gives every table file the extension .csv
TableExt_AlwaysCsv(table_sep) == ".csv"

\* table_ext of save
TableExt(table_sep) == IF table_sep = Str("\t") THEN ".tsv" ELSE ".csv"

\* how v.save is called for a table of group g: trials are saved without sep
SaveDelim(g, table_sep) == IF g = "trials" THEN NoDelim ELSE Delim(table_sep)

\* if file_names: dataset[g] = file_names
PutFileNames(dataset, g, file_names) ==
    IF Len(file_names.items) > 0 THEN DictSet(dataset, g, file_names) ELSE dataset

\* One "for k, v in self.<g>()" loop of save from the i-th key of group g on.
\* st is the state of the call: self, fs, exc, log, the file names of the
\* group so far and the files written so far; a are the locals of save.
RECURSIVE SaveLoopFrom(_, _, _, _)
RECURSIVE SaveTable(_, _, _, _, _, _)
RECURSIVE SaveWritten(_, _, _, _, _, _, _, _)
SaveLoopFrom(g, st, a, i) ==
    IF st.self[ObjAttr(g)] = None \/ i > Len(st.self[ObjAttr(g)].items)
    THEN st
    ELSE SaveTable(g, st, a, i, DictKeys(st.self[ObjAttr(g)])[i],
                   GroupValue(g, st.self, st.fs, DictKeys(st.self[ObjAttr(g)])[i], TRUE))

\* the body of the loop for key k, whose table the iterator yields with r
SaveTable(g, st, a, i, k, r) ==
    IF r.exc # ""
    THEN [st EXCEPT !.self = r.self, !.exc = r.exc, !.log = st.log \o r.log]
    ELSE SaveWritten(g, [st EXCEPT !.self = r.self, !.log = st.log \o r.log,
                                   !.file_names = DictSet(st.file_names, k,
                                                          Str(k \o a.table_ext))],
                     a, i, k, r, PathJoin(a.dataset_dir, k \o a.table_ext),
                     TableSave(st.fs, r.ret, PathJoin(a.dataset_dir, k \o a.table_ext),
                               SaveDelim(g, a.table_sep), a.bad))

\* a variant of SaveWritten that, with update_paths, turns the slot of the
\* table it has written into a path reference to the new file
SaveWritten_DropsObject(g, st, a, i, k, r, file_path, w) ==
    IF w.exc # ""
    THEN [st EXCEPT !.exc = w.exc]
    ELSE SaveLoopFrom(g, [st EXCEPT !.fs = w.fs,
                                    !.writes = Append(st.writes, file_path),
                                    !.self = IF a.update_paths
                                             THEN [r.self EXCEPT
                                                     ![PathAttr(g)] =
                                                       DictSet(r.self[PathAttr(g)], k, file_path),
                                                     ![ObjAttr(g)] =
                                                       DictSet(r.self[ObjAttr(g)], k, None)]
                                             ELSE r.self],
                      a, i + 1)

\* the rest of the body after v.save(file_path), whose outcome is w
SaveWritten(g, st, a, i, k, r, file_path, w) ==
    IF w.exc # ""
    THEN [st EXCEPT !.exc = w.exc]
    ELSE SaveLoopFrom(g, [st EXCEPT !.fs = w.fs,
                                    !.writes = Append(st.writes, file_path),
                                    !.self = IF a.update_paths
                                             THEN [r.self EXCEPT ![PathAttr(g)] =
                                                     DictSet(r.self[PathAttr(g)], k, file_path)]
                                             ELSE r.self],
                      a, i + 1)

\* The five loops of save in their order, from the gi-th group on; dataset
\* is the manifest built so far.
RECURSIVE SaveGroupsFrom(_, _, _)
RECURSIVE SaveGroupDone(_, _, _)
SaveGroupsFrom(st, a, gi) ==
    IF gi > Len(Groups) \/ st.exc # ""
    THEN st
    ELSE SaveGroupDone(a, gi,
                       SaveLoopFrom(Groups[gi], [st EXCEPT !.file_names = Dict(<<>>)], a, 1))

\* after the loop of the gi-th group, which leaves the call in state s1
SaveGroupDone(a, gi, s1) ==
    IF s1.exc # ""
    THEN s1
    ELSE SaveGroupsFrom([s1 EXCEPT !.dataset =
                            PutFileNames(s1.dataset, Groups[gi], s1.file_names)],
                        a, gi + 1)

\* a variant of DumpManifest that writes the manifest built so far also when
\* a table of a group could not be loaded or written
DumpManifest_Always(st, a) ==
    IF ~Writable(a.dataset_file, a.bad)
    THEN [st EXCEPT !.exc = "IOError"]
    ELSE [st EXCEPT !.fs = WriteFile(st.fs, a.dataset_file,
                                     [tag |-> "yaml", doc |-> st.dataset]),
                    !.writes = Append(st.writes, a.dataset_file)]

\* with open(dataset_file, "w") as f: yaml.dump(dataset, f)
DumpManifest(st, a) ==
    IF st.exc # "" THEN st
    ELSE IF ~Writable(a.dataset_file, a.bad)
    THEN [st EXCEPT !.exc = "IOError"]
    ELSE [st EXCEPT !.fs = WriteFile(st.fs, a.dataset_file,
                                     [tag |-> "yaml", doc |-> st.dataset]),
                    !.writes = Append(st.writes, a.dataset_file)]

\* the locals of save before its first call
SaveLocals(dataset_path, update_paths, table_sep, bad) ==
    [table_sep |-> table_sep, table_ext |-> TableExt(table_sep),
     dataset_dir |-> resolve_dataset_path(dataset_path).dataset_dir,
     dataset_file |-> resolve_dataset_path(dataset_path).dataset_file,
     update_paths |-> update_paths, bad |-> bad]

\* save after self.segments().save(file_path, sep=table_sep), whose outcome is w
SaveSegmentsWritten(st, a, file_path, w) ==
    IF w.exc # ""
    THEN [st EXCEPT !.exc = w.exc]
    ELSE DumpManifest(
           SaveGroupsFrom([st EXCEPT !.fs = w.fs,
                                     !.writes = <<file_path>>,
                                     !.self = IF a.update_paths
                                              THEN [st.self EXCEPT !._segments_path = file_path]
                                              ELSE st.self],
                          a, 1),
           a)

\* save from self.segments() on, whose outcome is seg
SaveSegments(f, a, seg) ==
    IF seg.exc # ""
    THEN [self |-> seg.self, fs |-> f, exc |-> seg.exc, ret |-> None, log |-> seg.log,
          writes |-> <<>>, file_names |-> Dict(<<>>), dataset |-> Dict(<<>>)]
    ELSE SaveSegmentsWritten(
           [self |-> seg.self, fs |-> f, exc |-> "", ret |-> None, log |-> seg.log,
            writes |-> <<>>, file_names |-> Dict(<<>>),
            dataset |-> Dict(<<[k |-> "segments", v |-> Str("segments" \o a.table_ext)]>>)],
           a, PathJoin(a.dataset_dir, "segments" \o a.table_ext),
           TableSave(f, seg.ret, PathJoin(a.dataset_dir, "segments" \o a.table_ext),
                     Delim(a.table_sep), a.bad))

\* a variant of SaveWith that sets the separator of the registry whatever
\* update_paths is
SaveWith_SetsSeparator(s, f, a) ==
    SaveSegments(f, a, segments([s EXCEPT !.table_sep = a.table_sep], f, TRUE))

\* save with its locals a
SaveWith(s, f, a) ==
    SaveSegments(f, a,
                 segments(IF a.update_paths THEN [s EXCEPT !.table_sep = a.table_sep] ELSE s,
                          f, TRUE))

\* Dataset.save; bad are the files whose write fails during the call
save(s, f, dataset_path, update_paths, table_sep_arg, bad) ==
    SaveWith(s, f,
             SaveLocals(dataset_path, update_paths,
                        IF table_sep_arg = None THEN s.table_sep ELSE table_sep_arg, bad))

----------------------------------------------------------------------------
(* update_from_disk and load *)

\* the outcome it of one "for k, v in self.<g>(): pass" loop after the log so far
AfterLoop(log, it) == [it EXCEPT !.log = log \o it.log, !.ret = None]

\* the five "for k, v in self.<g>(): pass" loops from the gi-th group on
RECURSIVE UpdateGroupsFrom(_, _)
UpdateGroupsFrom(r, gi) ==
    IF gi > Len(Groups) \/ r.exc # ""
    THEN r
    ELSE UpdateGroupsFrom(AfterLoop(r.log, Iterate(Groups[gi], r.self, r.fs, TRUE)),
                          gi + 1)

\* Dataset.update_from_disk
update_from_disk(s, f) == UpdateGroupsFrom(AfterLoop(<<>>, segments(s, f, TRUE)), 1)

\* open(path, mode): "w" creates the file or truncates it
Open(f, path, mode) ==
    IF mode = "w"
    THEN IF Writable(path, {})
         THEN [exc |-> "", fs |-> WriteFile(f, path, [tag |-> "empty"]),
               handle |-> [path |-> path, mode |-> mode]]
         ELSE [exc |-> "FileNotFoundError", fs |-> f, handle |-> None]
    ELSE IF path.parts \in DOMAIN f
         THEN [exc |-> "", fs |-> f, handle |-> [path |-> path, mode |-> mode]]
         ELSE [exc |-> "FileNotFoundError", fs |-> f, handle |-> None]

\* yaml.safe_load(handle): reading needs a handle opened for reading
yaml_safe_load(f, handle) ==
    IF handle.mode # "r"
    THEN [exc |-> "UnsupportedOperation", ret |-> None]
    ELSE IF f[handle.path.parts].tag = "yaml"
    THEN [exc |-> "", ret |-> f[handle.path.parts].doc]
    ELSE IF f[handle.path.parts].tag = "empty"
    THEN [exc |-> "", ret |-> None]
    ELSE [exc |-> "YAMLError", ret |-> None]

\* the mode load opens the manifest with
LoadOpenMode == "w"

\* load after dataset = yaml.safe_load(f), whose outcome is y
LoadParsed(fs1, dataset_dir, y) ==
    IF y.exc # "" THEN Raise(None, fs1, <<>>, y.exc)
    ELSE IF y.ret = None THEN Raise(None, fs1, <<>>, "TypeError")
    ELSE IF ~DictHas(y.ret, "segments") THEN Raise(None, fs1, <<>>, "AssertionError")
    ELSE Raise(None, fs1, <<>>,
               resolve_file_path(fs1, dataset_dir, DictGet(y.ret, "segments")).exc)

\* load after open(dataset_file, mode), whose outcome is o
LoadOpened(dataset_dir, o) ==
    IF o.exc # ""
    THEN Raise(None, o.fs, <<>>, o.exc)
    ELSE LoadParsed(o.fs, dataset_dir, yaml_safe_load(o.fs, o.handle))

\* Dataset.load up to the resolution of the segments entry.  Every value of a
\* parsed manifest is a str, for which resolve_file_path raises, so the rest
\* of load (the group loops, the constructor call, update_from_disk) never runs.
load(f, dataset_path, lazy, sparse_trials) ==
    LoadOpened(resolve_dataset_path(dataset_path).dataset_dir,
               Open(f, resolve_dataset_path(dataset_path).dataset_file, LoadOpenMode))

----------------------------------------------------------------------------
(* Arguments of the calls *)

\* key names; a group of n keys holds the last n of the first MaxKeys names,
\* inserted in this order
KeyOrder == <<"c", "b", "a">>

KeyCount == IF MaxKeys < Len(KeyOrder) THEN MaxKeys ELSE Len(KeyOrder)

GroupKeys(n) == SubSeq(KeyOrder, Len(KeyOrder) - n + 1, Len(KeyOrder))

Keys == {KeyOrder[i] : i \in (Len(KeyOrder) - KeyCount + 1)..Len(KeyOrder)}

\* the key sequences of a constructor argument
KeySeqs == {GroupKeys(n) : n \in 0..KeyCount}

Index(g) == CHOOSE i \in 1..Len(Groups) : Groups[i] = g

\* the class of the objects a caller passes for group g
ArgType(g) == IF g = "trials" THEN "TrialKey" ELSE CHOOSE c \in GroupTypes(g) : TRUE

\* the table object a caller passes for key k of group g
ArgObject(g, k) ==
    [tag |-> ArgType(g),
     id |-> (Index(g) - 1) * Len(KeyOrder) + (CHOOSE i \in 1..Len(KeyOrder) : KeyOrder[i] = k),
     data |-> g \o "/" \o k]

\* the path a caller passes for key k of group g
ArgPath(g, k) == Path(<<"in", g \o "_" \o k \o ".csv">>)

SegmentsObject == [tag |-> "SegmentSet", id |-> 0, data |-> "segments"]

SegmentsPath == Path(<<"in", "segments.csv">>)

\* A group argument is None or a dict over a key sequence.  The caller passes
\* a table object for the last key of a group of two or more keys and a path
\* for every other key.
Shape(ks) == [tag |-> "shape", ks |-> ks]

ArgLoaded(ks, j) == Len(ks) >= 2 /\ j = Len(ks)

GroupArg(g, shape) ==
    IF shape = None THEN None
    ELSE Dict([j \in 1..Len(shape.ks) |->
                 [k |-> shape.ks[j],
                  v |-> IF ArgLoaded(shape.ks, j) THEN ArgObject(g, shape.ks[j])
                        ELSE ArgPath(g, shape.ks[j])]])

\* The group arguments of a constructor call: no group, one group over any
\* key sequence, or up to MaxGroups groups next to each other in Groups that
\* each hold the one key "a".
CtorShapes ==
    {[g \in GroupSet |-> None]}
    \cup {[g \in GroupSet |-> IF g = g0 THEN Shape(ks) ELSE None] :
            g0 \in GroupSet, ks \in KeySeqs}
    \cup {[g \in GroupSet |-> IF Index(g) \in r[1]..(r[1] + r[2] - 1)
                              THEN Shape(<<"a">>) ELSE None] :
            r \in {x \in (1..Len(Groups)) \X (2..MaxGroups) :
                     x[1] + x[2] - 1 <= Len(Groups)}}

\* the keys of group g that the caller passes as paths
PathKeys(sh, g) ==
    IF sh[g] = None THEN {}
    ELSE {sh[g].ks[j] : j \in {i \in 1..Len(sh[g].ks) : ~ArgLoaded(sh[g].ks, i)}}

Separators == {None, Str("\t")}

SaveSeparators == {None, Str("\t"), Str(",")}

DatasetPaths == {Path(<<"out">>), Path(<<"out", "dataset.yaml">>),
                 Path(<<"out", "dataset.yml">>)}

TrialKinds == {"TrialKey", "TrialNdx", "SparseTrialKey"}

\* the content of the file a path argument of group g, key k names
ArgFile(g, k, sep, trial_kind) ==
    IF g = "trials"
    THEN [tag |-> "table", kind |-> trial_kind, data |-> g \o "/" \o k, delim |-> NoDelim]
    ELSE [tag |-> "table", kind |-> ArgType(g), data |-> g \o "/" \o k,
          delim |-> Delim(sep)]

\* a manifest written by hand that lacks the segments entry
StaleManifest == [tag |-> "yaml", doc |-> Dict(<<>>)]

ManifestPath == Path(<<"out", "dataset.yaml">>)

\* the files present at construction: the files of the path arguments but
\* the missing ones, and a stale manifest
InitialFiles(sh, sep, trial_kind, missing) ==
    LET refs == {x \in GroupSet \X Keys : x[2] \in PathKeys(sh, x[1]) /\ x \notin missing}
        paths == {ArgPath(r[1], r[2]).parts : r \in refs}
                 \cup {SegmentsPath.parts, ManifestPath.parts}
    IN  [p \in paths |->
           IF p = SegmentsPath.parts
           THEN [tag |-> "table", kind |-> "SegmentSet", data |-> "segments",
                 delim |-> Delim(sep)]
           ELSE IF p = ManifestPath.parts THEN StaleManifest
           ELSE LET r == CHOOSE r \in refs : ArgPath(r[1], r[2]).parts = p
                IN  ArgFile(r[1], r[2], sep, trial_kind)]

\* the path arguments whose file may be missing: those of a group that also
\* holds a table object
MayMiss(sh) ==
    {x \in (GroupSet \ {"trials"}) \X Keys :
        x[2] \in PathKeys(sh, x[1]) /\ Len(sh[x[1]].ks) >= 2}

----------------------------------------------------------------------------
(* The state machine: one action per call on the registry *)

NoCall == [op |-> "", args |-> None, exc |-> "", ret |-> None,
           log |-> <<>>, writes |-> <<>>, prev |-> None]

Init ==
    \E sh \in CtorShapes, seg \in {SegmentsObject, SegmentsPath},
       sep \in Separators, sparse \in BOOLEAN, trial_kind \in TrialKinds :
      \E missing \in {{}} \cup {{x} : x \in MayMiss(sh)} :
        /\ PathKeys(sh, "trials") = {} => (~sparse /\ trial_kind = "TrialKey")
        /\ self = __init__(seg, GroupArg("classes", sh["classes"]),
                           GroupArg("recordings", sh["recordings"]),
                           GroupArg("features", sh["features"]),
                           GroupArg("enrollments", sh["enrollments"]),
                           GroupArg("trials", sh["trials"]), sparse, sep)
        /\ fs = InitialFiles(sh, sep, trial_kind, missing)
        /\ last = NoCall
        /\ nsaves = 0

\* The caller keeps the outcome of a call in last until it drops it.  It makes
\* a call when it holds no outcome, or right after the call whose outcome it
\* holds when the two belong together: an accessor called again on the same
\* table, a load of the dataset path just saved.
IsAccessor(op) == op \in {"segments"} \cup {g \o "_value" : g \in GroupSet}

MayCall(op, args) ==
    \/ last = NoCall
    \/ /\ IsAccessor(op)
       /\ last.op = op
       /\ op # "segments" => last.args.key = args.key
    \/ /\ op = "load"
       /\ last.op = "save"
       /\ last.args.dataset_path = args.dataset_path

\* the outcome the caller held when it made the call: None, or the outcome
\* of the call right before
Prev == IF last = NoCall THEN None ELSE [last EXCEPT !.prev = None]

\* the effect of a call with result r on the state
Called(op, args, r) ==
    /\ MayCall(op, args)
    /\ self' = IF r.self = None THEN self ELSE r.self
    /\ fs' = r.fs
    /\ last' = [op |-> op, args |-> args, exc |-> r.exc, ret |-> r.ret,
                log |-> r.log, writes |-> <<>>, prev |-> Prev]

\* the caller drops the outcome it holds
Discard ==
    /\ last # NoCall
    /\ last' = NoCall
    /\ UNCHANGED <<self, fs, nsaves>>

Segments ==
    \E keep_loaded \in BOOLEAN :
        /\ Called("segments", [keep_loaded |-> keep_loaded],
                  segments(self, fs, keep_loaded))
        /\ UNCHANGED nsaves

\* a call of the accessor of group g with outcome r
ValueCall(g, key, keep_loaded, r) ==
    /\ Called(g \o "_value", [g |-> g, key |-> key, keep_loaded |-> keep_loaded], r)
    /\ UNCHANGED nsaves

RecordingsValue ==
    \E key \in Keys, keep_loaded \in BOOLEAN :
        ValueCall("recordings", key, keep_loaded, recordings_value(self, fs, key, keep_loaded))

FeaturesValue ==
    \E key \in Keys, keep_loaded \in BOOLEAN :
        ValueCall("features", key, keep_loaded, features_value(self, fs, key, keep_loaded))

ClassesValue ==
    \E key \in Keys, keep_loaded \in BOOLEAN :
        ValueCall("classes", key, keep_loaded, classes_value(self, fs, key, keep_loaded))

EnrollmentsValue ==
    \E key \in Keys, keep_loaded \in BOOLEAN :
        ValueCall("enrollments", key, keep_loaded, enrollments_value(self, fs, key, keep_loaded))

TrialsValue ==
    \E key \in Keys, keep_loaded \in BOOLEAN :
        ValueCall("trials", key, keep_loaded, trials_value(self, fs, key, keep_loaded))

\* a run of the iterator of group g to its end, with outcome r
ItemsCall(g, keep_loaded, r) ==
    /\ Called(g, [g |-> g, keep_loaded |-> keep_loaded], r)
    /\ UNCHANGED nsaves

Recordings ==
    \E keep_loaded \in BOOLEAN :
        ItemsCall("recordings", keep_loaded, recordings(self, fs, keep_loaded))

Features ==
    \E keep_loaded \in BOOLEAN :
        ItemsCall("features", keep_loaded, features(self, fs, keep_loaded))

Classes ==
    \E keep_loaded \in BOOLEAN :
        ItemsCall("classes", keep_loaded, classes(self, fs, keep_loaded))

Enrollments ==
    \E keep_loaded \in BOOLEAN :
        ItemsCall("enrollments", keep_loaded, enrollments(self, fs, keep_loaded))

Trials ==
    \E keep_loaded \in BOOLEAN :
        ItemsCall("trials", keep_loaded, trials(self, fs, keep_loaded))

UpdateFromDisk ==
    /\ Called("update_from_disk", None, update_from_disk(self, fs))
    /\ UNCHANGED nsaves

\* the files a save call may fail to write: none, or one of its targets
BadWrites(dataset_path, table_sep) ==
    LET rp  == resolve_dataset_path(dataset_path)
        ext == TableExt(table_sep)
    IN  {{}} \cup {{PathJoin(rp.dataset_dir, k \o ext).parts} : k \in {"a", "segments"}}

\* the effect of a save call with outcome r on the state
Saved(args, r) ==
    /\ self' = r.self
    /\ fs' = r.fs
    /\ last' = [op |-> "save", args |-> args, exc |-> r.exc, ret |-> None,
                log |-> r.log, writes |-> r.writes, prev |-> Prev]
    /\ nsaves' = nsaves + 1

Save ==
    /\ nsaves < MaxSaves
    /\ last = NoCall
    /\ \E dataset_path \in DatasetPaths, update_paths \in BOOLEAN,
          table_sep \in SaveSeparators :
          \E bad \in BadWrites(dataset_path,
                                IF table_sep = None THEN self.table_sep ELSE table_sep) :
            Saved([dataset_path |-> dataset_path, update_paths |-> update_paths,
                   table_sep |-> table_sep, bad |-> bad],
                  save(self, fs, dataset_path, update_paths, table_sep, bad))

Load ==
    \E dataset_path \in DatasetPaths, lazy \in BOOLEAN, sparse_trials \in BOOLEAN :
        /\ Called("load", [dataset_path |-> dataset_path, lazy |-> lazy,
                           sparse_trials |-> sparse_trials],
                  load(fs, dataset_path, lazy, sparse_trials))
        /\ UNCHANGED nsaves

Next ==
    \/ Segments
    \/ RecordingsValue
    \/ FeaturesValue
    \/ ClassesValue
    \/ EnrollmentsValue
    \/ TrialsValue
    \/ Recordings
    \/ Features
    \/ Classes
    \/ Enrollments
    \/ Trials
    \/ UpdateFromDisk
    \/ Save
    \/ Load
    \/ Discard

Spec == Init /\ [][Next]_vars

----------------------------------------------------------------------------
(* Vocabulary of the properties *)

Configured(s, g) == s[ObjAttr(g)] # None

\* the (group, key) pairs of the registry
Slots(s) == {x \in GroupSet \X Keys : Configured(s, x[1]) /\ DictHas(s[ObjAttr(x[1])], x[2])}

SlotObj(s, g, k) == DictGet(s[ObjAttr(g)], k)

SlotPath(s, g, k) == DictGet(s[PathAttr(g)], k)

\* the slot holds a path and no object
IsRef(s, g, k) == SlotObj(s, g, k) = None /\ SlotPath(s, g, k) # None

\* the slot holds an object and a path
BothSet(s, g, k) == SlotObj(s, g, k) # None /\ SlotPath(s, g, k) # None

BothUnset(s, g, k) == SlotObj(s, g, k) = None /\ SlotPath(s, g, k) = None

ExactlyOne(s, g, k) == ~BothSet(s, g, k) /\ ~BothUnset(s, g, k)

----------------------------------------------------------------------------
(* C1 *)

\* C1 as stated: in every reachable state every key of every configured
\* group has exactly one of its object and its path set.
C1_ExactlyOneAlways == \A x \in Slots(self) : ExactlyOne(self, x[1], x[2])

\* C1 amended: in every reachable state every key of every configured
\* group has at least one of its object and its path set, never both unset
\* (both are set once the key is loaded with keep_loaded = true or written
\* by a save with update_paths = true, since the path is kept).
C1_NeverBothUnset == \A x \in Slots(self) : ~BothUnset(self, x[1], x[2])

\* an accessor called with keep_loaded = true has loaded a table and left
\* its key with both the object and the path set
C1_Witness ==
    /\ IsAccessor(last.op) /\ last.op # "segments"
    /\ last.exc = ""
    /\ last.args.keep_loaded
    /\ last.log # <<>>
    /\ BothSet(self, last.args.g, last.args.key)

----------------------------------------------------------------------------
(* C2 *)

ValueOps == {g \o "_value" : g \in GroupSet}

\* c is a call of a grouped accessor on a key the registry s holds
OnSlot(c, s) == c.op \in ValueOps /\ <<c.args.g, c.args.key>> \in Slots(s)

\* the step is a call of a grouped accessor on a path reference
RefCall == OnSlot(last', self) /\ IsRef(self, last'.args.g, last'.args.key)

\* the step is a call of a grouped accessor on a materialized slot
ObjCall == OnSlot(last', self) /\ SlotObj(self, last'.args.g, last'.args.key) # None

\* the step is a call with keep_loaded = true that follows at once a call
\* with keep_loaded = true of the same accessor on the same key, which
\* found a path reference (it went to the loader)
SecondCall ==
    /\ last.op \in ValueOps /\ last.args.keep_loaded /\ last.log # <<>>
    /\ last'.op = last.op /\ last'.args.key = last.args.key /\ last'.args.keep_loaded

\* the key-form parse of a trials file failed and the index-form parse was
\* tried once after it
FallbackLog(log) ==
    /\ Len(log) = 2
    /\ log[1].loader \in {"TrialKey.load", "SparseTrialKey.load"} /\ log[1].exc # ""
    /\ log[2].loader = "TrialNdx.load"

\* a call on a materialized slot returns the object of the slot, invokes no
\* loader and changes nothing of the registry
C2_Materialized ==
    ObjCall => /\ last'.exc = "" /\ last'.log = <<>>
               /\ last'.ret = SlotObj(self, last'.args.g, last'.args.key)
               /\ self' = self /\ fs' = fs

\* C2 as stated: of two consecutive accessor calls with keep_loaded = true
\* on a path reference the first, when it returns, has invoked the loader
\* exactly once, the second invokes no loader and returns the instance the
\* first returned; a call on a materialized slot returns its object with no
\* loader call and no change of the registry.
C2_LoaderOnce ==
    [][/\ (RefCall /\ last'.args.keep_loaded /\ last'.exc = "") => Len(last'.log) = 1
       /\ (SecondCall /\ last.exc = "")
            => (last'.log = <<>> /\ last'.exc = "" /\ last'.ret = last.ret)
       /\ C2_Materialized]_vars

\* C2 amended: an accessor call with keep_loaded = true on a path reference
\* that returns has invoked the loader once, or, for a trials file whose
\* key-form parse fails, the key-form loader once and then the index-form
\* loader once; the call that follows it at once with keep_loaded = true
\* invokes no loader, returns the same instance and changes nothing.  A call
\* on a path reference that raises leaves the registry as it was.  A call on
\* a materialized slot returns its object with no loader call and no change
\* of the registry.
C2_IdempotentMaterialization ==
    [][/\ (RefCall /\ last'.args.keep_loaded /\ last'.exc = "")
            => (\/ Len(last'.log) = 1 /\ last'.log[1].exc = ""
                \/ last'.args.g = "trials" /\ FallbackLog(last'.log))
       /\ (RefCall /\ last'.exc # "") => self' = self
       /\ (SecondCall /\ last.exc = "")
            => (/\ last'.log = <<>> /\ last'.exc = "" /\ last'.ret = last.ret
                /\ self' = self /\ fs' = fs)
       /\ C2_Materialized]_vars

\* trials_value with keep_loaded = true has loaded an index-form file by the
\* fallback, and the same call made again at once has returned the same
\* instance without a loader call
C2_Witness ==
    /\ last.op = "trials_value" /\ last.args.keep_loaded
    /\ last.exc = "" /\ last.log = <<>>
    /\ last.prev # None
    /\ last.prev.op = "trials_value" /\ last.prev.args.keep_loaded
    /\ last.prev.exc = "" /\ FallbackLog(last.prev.log)
    /\ last.ret = last.prev.ret /\ last.ret # None

----------------------------------------------------------------------------
(* C3 *)

\* the file the path reference of key k of group g names, as the registry s
\* and the files f have it
RefFile(s, f, g, k) == f[SlotPath(s, g, k).parts]

\* C3: a grouped accessor called with keep_loaded = false on a path
\* reference, when it returns, returns the table object the loader produced
\* in that call from the file of the reference, not a null value.
C3_ReturnsLoadedTable ==
    [][(RefCall /\ ~last'.args.keep_loaded /\ last'.exc = "")
         => /\ last'.ret # None
            /\ last'.ret.data = RefFile(self, fs, last'.args.g, last'.args.key).data]_vars

----------------------------------------------------------------------------
(* C4 *)

\* the segments slot holds a path and no object
SegmentsIsRef(s) == s._segments = None /\ s._segments_path # None

\* c is a call with keep_loaded = false of an accessor, the singleton
\* segments accessor or a grouped one, on a slot that is a path reference in s
NonCachingRead(c, s) ==
    /\ IsAccessor(c.op) /\ ~c.args.keep_loaded
    /\ IF c.op = "segments" THEN SegmentsIsRef(s)
       ELSE OnSlot(c, s) /\ IsRef(s, c.args.g, c.args.key)

\* the step is a call of the accessor of the call c on the same key
SameAccessor(c) ==
    /\ last'.op = c.op /\ last'.prev # None
    /\ c.op # "segments" => last'.args.key = c.args.key

\* C4: an accessor call with keep_loaded = false on a path reference leaves
\* the whole registry unchanged, and the accessor call on the same key that
\* follows it invokes the loader again.
C4_NonCachingRead ==
    [][/\ NonCachingRead(last', self) => self' = self
       /\ (NonCachingRead(last, self) /\ SameAccessor(last)) => last'.log # <<>>]_vars

----------------------------------------------------------------------------
(* C5 *)

\* C5: segments(keep_loaded) on a registry built from a segment path calls
\* SegmentSet.load once on the stored path with the table_sep of the
\* registry and fails only when that load fails; when the load succeeds it
\* returns the loaded table and stores it iff keep_loaded is true.
C5_SegmentsProtocol ==
    [][(last'.op = "segments" /\ SegmentsIsRef(self))
         => /\ last'.log = <<LoadCall("SegmentSet.load", self._segments_path,
                                      self.table_sep, last'.exc)>>
            /\ last'.exc = ""
                 => /\ last'.ret # None /\ last'.ret.tag = "SegmentSet"
                    /\ self' = IF last'.args.keep_loaded
                               THEN [self EXCEPT !._segments = last'.ret]
                               ELSE self]_vars

----------------------------------------------------------------------------
(* C6 *)

\* C6: a load of the dataset path that a save has just written with success
\* succeeds and returns a registry.
C6_RoundTrip ==
    [][(/\ last.op = "save" /\ last.exc = ""
        /\ last'.op = "load" /\ last'.args.dataset_path = last.args.dataset_path)
         => (last'.exc = "" /\ last'.ret # None)]_vars

----------------------------------------------------------------------------
(* C7 *)

\* the file at path p of the files f, None when there is none
FileAt(f, p) == IF p.parts \in DOMAIN f THEN f[p.parts] ELSE None

\* the manifest file that dataset_path names
ManifestOf(dataset_path) == resolve_dataset_path(dataset_path).dataset_file

\* the manifest dataset_path names is a parsed document without segments
LacksSegments(f, dataset_path) ==
    /\ FileAt(f, ManifestOf(dataset_path)).tag = "yaml"
    /\ ~DictHas(FileAt(f, ManifestOf(dataset_path)).doc, "segments")

\* C7: load on a manifest that lacks the segments key ends in the error of
\* the check that segments is present (the assert of load), and no table
\* loader has been invoked.
C7_MissingSegmentsFailsFast ==
    [][(last'.op = "load" /\ LacksSegments(fs, last'.args.dataset_path))
         => (last'.exc = "AssertionError" /\ last'.log = <<>>)]_vars

----------------------------------------------------------------------------
(* C8 *)

\* C8: load never modifies the manifest file: its content after the call,
\* returned or failed, is its content before the call.
C8_LoadReadOnly ==
    [][last'.op = "load"
         => FileAt(fs', ManifestOf(last'.args.dataset_path))
              = FileAt(fs, ManifestOf(last'.args.dataset_path))]_vars

----------------------------------------------------------------------------
(* C9 *)

\* C9: when trials_value materializes a path reference, the first parse is
\* by the sparse key-form parser if sparse_trials is set and by the dense
\* key-form parser otherwise; the index-form parser is tried iff the first
\* parse failed, and once; for an index-form file trials_value returns the
\* index-form table without raising.
C9_TrialsResolutionOrder ==
    [][(RefCall /\ last'.args.g = "trials")
         => /\ Len(last'.log) \in 1..2
            /\ last'.log[1].loader = FirstTrialsParser(self) \o ".load"
            /\ Len(last'.log) = 2 <=> last'.log[1].exc # ""
            /\ Len(last'.log) = 2 => last'.log[2].loader = "TrialNdx.load"
            /\ RefFile(self, fs, "trials", last'.args.key).kind = "TrialNdx"
                 => /\ last'.exc = ""
                    /\ last'.ret.tag = "TrialNdx"
                    /\ last'.ret.data = RefFile(self, fs, "trials", last'.args.key).data]_vars

----------------------------------------------------------------------------
(* C10 *)

\* C10: after a successful save the written manifest holds the key of an
\* optional group iff the group is configured on the registry; a configured
\* group of zero keys is recorded as an empty mapping.
C10_GroupsInManifest ==
    (last.op = "save" /\ last.exc = "")
      => \A g \in GroupSet :
           /\ DictHas(FileAt(fs, ManifestOf(last.args.dataset_path)).doc, g)
                <=> Configured(self, g)
           /\ (Configured(self, g) /\ self[ObjAttr(g)].items = <<>>)
                => DictGet(FileAt(fs, ManifestOf(last.args.dataset_path)).doc, g) = Dict(<<>>)

----------------------------------------------------------------------------
(* C11 *)

\* the separator a save call with arguments args works with on registry s
EffectiveSep(s, args) == IF args.table_sep = None THEN s.table_sep ELSE args.table_sep

\* the extension that goes with a separator
ExtOf(sep) == IF sep = Str("\t") THEN ".tsv" ELSE ".csv"

\* the last part of a path
FileName(p) == p.parts[Len(p.parts)]

\* the table files a save call c has written: its writes but the manifest
TableWrites(c) ==
    {c.writes[i] : i \in {j \in 1..Len(c.writes) :
                              c.writes[j] # ManifestOf(c.args.dataset_path)}}

\* the file names a manifest document records for its groups
GroupEntries(doc) ==
    UNION {{DictGet(doc, g).items[j] : j \in 1..Len(DictGet(doc, g).items)} :
             g \in {h \in GroupSet : DictHas(doc, h)}}

\* C11: in one save call the effective separator is the table_sep argument
\* if given, else the table_sep of the registry; every table file written
\* is segments+ext or k+ext for a key k, in the directory of the dataset,
\* and the manifest records segments+ext and k+ext for every key k, where
\* ext is .tsv iff the effective separator is the tab and .csv otherwise.
C11_UniformExtension ==
    [][last'.op = "save"
         => /\ \A w \in TableWrites(last') :
                 /\ PathParent(w) = resolve_dataset_path(last'.args.dataset_path).dataset_dir
                 /\ FileName(w) \in
                      {k \o ExtOf(EffectiveSep(self, last'.args)) : k \in Keys \cup {"segments"}}
            /\ last'.writes # <<>>
                 => FileName(last'.writes[1])
                      = "segments" \o ExtOf(EffectiveSep(self, last'.args))
            /\ last'.exc = ""
                 => /\ DictGet(FileAt(fs', ManifestOf(last'.args.dataset_path)).doc, "segments")
                         = Str("segments" \o ExtOf(EffectiveSep(self, last'.args)))
                    /\ \A x \in GroupEntries(FileAt(fs', ManifestOf(last'.args.dataset_path)).doc) :
                         x.v = Str(x.k \o ExtOf(EffectiveSep(self, last'.args)))]_vars

\* a save with table_sep = tab on a registry that has no separator set has
\* succeeded and has written the table of a key as k.tsv
C11_Witness ==
    /\ last.op = "save" /\ last.exc = ""
    /\ last.args.table_sep = Str("\t") /\ ~last.args.update_paths
    /\ self.table_sep = None
    /\ \E w \in TableWrites(last) : FileName(w) = "a.tsv"
    /\ GroupEntries(FileAt(fs, ManifestOf(last.args.dataset_path)).doc) # {}

----------------------------------------------------------------------------
(* C12 *)

\* the path bookkeeping of a registry: the segment path, the key-to-path
\* mapping of every group and the separator
PathBookkeeping(s) ==
    [segments_path |-> s._segments_path,
     paths |-> [g \in GroupSet |-> s[PathAttr(g)]],
     table_sep |-> s.table_sep]

\* C12: a save with update_paths = false, successful or failed, leaves the
\* segment path, the key-to-path mapping of every group and the table_sep
\* of the registry exactly as they were before the call.
C12_SaveKeepsPaths ==
    [][(last'.op = "save" /\ ~last'.args.update_paths)
         => PathBookkeeping(self') = PathBookkeeping(self)]_vars

\* a save with update_paths = false and a separator other than that of the
\* registry has written the table of a key it had to load first, and the
\* key still names the file it was loaded from
C12_Witness ==
    /\ last.op = "save" /\ last.exc = "" /\ ~last.args.update_paths
    /\ last.args.table_sep = Str("\t") /\ self.table_sep = None
    /\ last.log # <<>>
    /\ Len(last.writes) >= 3
    /\ \E x \in Slots(self) :
         /\ BothSet(self, x[1], x[2])
         /\ SlotPath(self, x[1], x[2]) = ArgPath(x[1], x[2])

----------------------------------------------------------------------------
(* C13 *)

\* the manifest dataset_path names is a parsed document with a segments entry
HasSegments(f, dataset_path) ==
    /\ FileAt(f, ManifestOf(dataset_path)).tag = "yaml"
    /\ DictHas(FileAt(f, ManifestOf(dataset_path)).doc, "segments")

\* the paths resolve_file_path may give for the manifest entry name
Resolved(dataset_dir, name) == {Path(<<name.s>>), PathJoin(dataset_dir, name.s)}

\* r is the registry a lazy load builds from the manifest document doc:
\* its groups and keys are those of doc and every slot is a path reference
\* to the resolved file of its entry
IsLazyRegistry(r, doc, dataset_dir, sparse_trials) ==
    /\ r # None
    /\ r.sparse_trials = sparse_trials
    /\ SegmentsIsRef(r)
    /\ r._segments_path \in Resolved(dataset_dir, DictGet(doc, "segments"))
    /\ \A g \in GroupSet :
         /\ Configured(r, g) <=> DictHas(doc, g)
         /\ Configured(r, g)
              => /\ DictKeys(r[ObjAttr(g)]) = DictKeys(DictGet(doc, g))
                 /\ \A k \in {x.k : x \in GroupEntries(doc)} :
                      DictHas(DictGet(doc, g), k)
                        => /\ IsRef(r, g, k)
                           /\ SlotPath(r, g, k)
                                \in Resolved(dataset_dir, DictGet(DictGet(doc, g), k))

----------------------------------------------------------------------------
(* C14 *)

\* every slot of the registry s, segments included, holds an object
AllMaterialized(s) ==
    /\ s # None
    /\ s._segments # None
    /\ \A x \in Slots(s) : SlotObj(s, x[1], x[2]) # None

\* the loader calls of a log that returned a table
Loads(log) == {i \in 1..Len(log) : log[i].exc = ""}

\* the path references of the registry s
RefSlots(s) == {x \in Slots(s) : IsRef(s, x[1], x[2])}

\* the call c has ended in the failure of a loader
LoaderFailure(c) == c.log # <<>> /\ c.log[Len(c.log)].exc = c.exc /\ c.exc # ""

----------------------------------------------------------------------------
(* C15 *)

\* the extensions of a manifest file
RecognizedExts == {".yaml", ".yml"}

\* C15: for the dataset path p that save or load has been called with,
\* resolve_dataset_path(p) is (parent of p, p) when the extension of p is
\* .yaml or .yml, and (p, p/dataset.yaml) otherwise.
C15_ResolveDatasetPath ==
    last.op \in {"save", "load"}
      => resolve_dataset_path(last.args.dataset_path)
           = IF Suffix(last.args.dataset_path) \in RecognizedExts
             THEN [dataset_dir |-> PathParent(last.args.dataset_path),
                   dataset_file |-> last.args.dataset_path]
             ELSE [dataset_dir |-> last.args.dataset_path,
                   dataset_file |-> PathJoin(last.args.dataset_path, "dataset.yaml")]

----------------------------------------------------------------------------
(* C16 *)

\* C16: a run of the iterator of a group that was never configured yields
\* zero pairs, raises nothing, invokes no loader and changes no state; a
\* run of the iterator of a configured group fails only when a loader
\* fails, and when it ends it has yielded exactly one pair per key of the
\* group, in the key order of the group, each with the value the accessor
\* returns for the key.
C16_Iteration ==
    [][last'.op \in GroupSet
         => IF ~Configured(self, last'.args.g)
            THEN /\ last'.exc = "" /\ last'.ret = List(<<>>) /\ last'.log = <<>>
                 /\ self' = self /\ fs' = fs
            ELSE /\ last'.exc = "" \/ LoaderFailure(last')
                 /\ last'.exc = ""
                      => /\ Len(last'.ret.items) = Len(self[ObjAttr(last'.args.g)].items)
                         /\ \A i \in 1..Len(last'.ret.items) :
                              /\ last'.ret.items[i].k = DictKeys(self[ObjAttr(last'.args.g)])[i]
                              /\ last'.ret.items[i].v
                                   = SlotObj(self', last'.args.g, last'.ret.items[i].k)]_vars

\* the iterator of a group that was never configured has run on a registry
\* that has another group configured, and has yielded nothing
C16_Witness ==
    /\ last.op \in GroupSet /\ ~Configured(self, last.op)
    /\ \E g \in GroupSet : Configured(self, g) /\ self[ObjAttr(g)].items # <<>>
    /\ last.exc = "" /\ last.ret = List(<<>>)

----------------------------------------------------------------------------
(* C17 *)

\* the loaders of the trial formats, which are called without a separator
TrialLoaders == {k \o ".load" : k \in TrialKinds}

\* C17: in a save call whose table_sep argument differs from the table_sep
\* of the registry, with update_paths true or false, every table that is a
\* path reference is loaded with the delimiter of the separator the
\* registry had before the call, and every table file is written with the
\* delimiter of the effective separator.
C17_LoadWithOldSeparator ==
    [][(/\ last'.op = "save"
        /\ last'.args.table_sep # None
        /\ last'.args.table_sep # self.table_sep)
         => /\ \A i \in 1..Len(last'.log) :
                 last'.log[i].loader \notin TrialLoaders
                   => Delim(last'.log[i].sep) = Delim(self.table_sep)
            /\ \A w \in TableWrites(last') :
                 FileAt(fs', w).delim \in {Delim(last'.args.table_sep), NoDelim}]_vars

----------------------------------------------------------------------------
(* C18 *)

\* C18: no call, failed or not, makes a slot that holds an object (the
\* segment slot or a key of a group) null again or puts another object in
\* it, and no call changes which groups are configured or the keys of a
\* group.
C18_MaterializationOneWay ==
    [][/\ self._segments # None => self'._segments = self._segments
       /\ \A x \in Slots(self) :
            SlotObj(self, x[1], x[2]) # None
              => SlotObj(self', x[1], x[2]) = SlotObj(self, x[1], x[2])
       /\ \A g \in GroupSet :
            /\ Configured(self', g) <=> Configured(self, g)
            /\ Configured(self, g)
                 => /\ DictKeys(self'[ObjAttr(g)]) = DictKeys(self[ObjAttr(g)])
                    /\ DictKeys(self'[PathAttr(g)]) = DictKeys(self[PathAttr(g)])]_vars

\* a save with update_paths = true has loaded and written the table of a
\* key and has then failed to write the table object the registry was
\* built with for another key; both objects are in their slots
C18_Witness ==
    /\ last.op = "save" /\ last.exc = "IOError" /\ last.args.update_paths
    /\ last.log # <<>>
    /\ \E x \in Slots(self) :
         /\ SlotObj(self, x[1], x[2]) = ArgObject(x[1], x[2])
         /\ SlotPath(self, x[1], x[2]) = None
    /\ \E y \in Slots(self) :
         /\ SlotObj(self, y[1], y[2]) # None
         /\ SlotPath(self, y[1], y[2]) \in TableWrites(last)

----------------------------------------------------------------------------
(* C19 *)

\* the positions of the writes of a save call c that are the manifest
ManifestWrites(c) ==
    {i \in 1..Len(c.writes) : c.writes[i] = ManifestOf(c.args.dataset_path)}

\* C19: a save call writes the manifest only after the segment table and
\* the table of every key of every configured group have been written: the
\* manifest is its last write and is written once; a save call in which a
\* table load or a table write fails ends in that error and leaves the
\* manifest file as it was, be it absent.
C19_ManifestLast ==
    [][last'.op = "save"
         => /\ last'.exc # ""
                 => /\ ManifestWrites(last') = {}
                    /\ FileAt(fs', ManifestOf(last'.args.dataset_path))
                         = FileAt(fs, ManifestOf(last'.args.dataset_path))
            /\ last'.exc = ""
                 => /\ ManifestWrites(last') = {Len(last'.writes)}
                    /\ Len(last'.writes) = Cardinality(Slots(self)) + 2
                    /\ \A x \in Slots(self) :
                         \E w \in TableWrites(last') :
                           FileName(w) = x[2] \o ExtOf(EffectiveSep(self, last'.args))]_vars

\* a save has written tables and has then failed on the write of the table
\* of a key; the manifest that was there before is still there
C19_Witness ==
    /\ last.op = "save" /\ last.exc = "IOError"
    /\ Len(last.writes) >= 2
    /\ ManifestWrites(last) = {}
    /\ FileAt(fs, ManifestOf(last.args.dataset_path)) = StaleManifest

----------------------------------------------------------------------------
(* C20 *)

\* C20: within one save call no file is written more than once: the
\* segment table and the table of every key of every group go to files of
\* their own, also when two groups hold the same key.
C20_OneFilePerTable ==
    [][last'.op = "save"
         => \A i, j \in 1..Len(last'.writes) :
              last'.writes[i] = last'.writes[j] => i = j]_vars

====
